---- MODULE Spec2Model ----
(***************************************************************************)
(* Frame loop of TreeBillboardsApp (Castle scene, Direct3D 12): the CPU    *)
(* side Initialize / Update / Draw, the command queue and fence of the     *)
(* GPU, the per-frame-resource upload buffers and the scene tables built   *)
(* during initialization.                                                  *)
(***************************************************************************)
EXTENDS Integers, Sequences, FiniteSets, TLC

\* ------------------------------------------------------------------------
\* Bounds of the model
\* ------------------------------------------------------------------------
\* number of frames (Draw calls) explored
MaxFrames == 5
\* texture-coordinate units that make up 1.0f in the water animation
OneUnits == 10
\* rows and columns of the wave grid explored (Initialize builds 128 x 128)
WaveGrid == 2
\* number of mouse messages explored
MaxMouseEvents == 2

\* ------------------------------------------------------------------------
\* Program constants
\* ------------------------------------------------------------------------
gNumFrameResources == 3
NumDescriptors == 12
NullPtr == -1

\* gt.DeltaTime() of one frame, in units of 50 s / OneUnits: 0.02f*dt is dt
\* texture units and 0.1f*dt is 5*dt texture units
DeltaTimes == {0, 1}

\* client-area coordinates of the mouse messages explored
Coords == {0, 1}
\* wParam of a mouse message: any of MK_LBUTTON and MK_RBUTTON
MK_LBUTTON == 1
BtnStates == {0, 1, 2, 3}

\* ------------------------------------------------------------------------
\* Symbolic matrices
\* ------------------------------------------------------------------------
Identity4x4 == <<"Identity4x4", 0>>
XMMatrixScaling50 == <<"Scaling", 50>>
WorldOf(cbIndex) == <<"World", cbIndex>>
XMMatrixTranspose(m) == <<"T", m>>
UnwrittenMatrix == <<"unwritten", <<"none", 0>>>>
UnwrittenTransform == <<"unwritten", [tu |-> -1, tv |-> -1]>>

\* ------------------------------------------------------------------------
\* LoadTextures
\* ------------------------------------------------------------------------
LoadTextures ==
  [n \in {"grassTex", "waterTex", "fenceTex", "treeArrayTex", "brickTex",
          "ballTex", "darkBrickTex", "darkLightBrickTex", "lightBrickTex",
          "redTileTex", "glassTex", "sandTex"} |-> [Name |-> n, Resource |-> n]]

\* mTextures["x"]->Resource
TexResource(textures, n) == IF n \in DOMAIN textures THEN textures[n].Resource ELSE "null"

\* ------------------------------------------------------------------------
\* BuildDescriptorHeaps: CreateShaderResourceView at consecutive handles
\* ------------------------------------------------------------------------
Srv2D(res) == [Resource |-> res, ViewDimension |-> "TEXTURE2D"]
Srv2DArray(res) == [Resource |-> res, ViewDimension |-> "TEXTURE2DARRAY"]

\* mutant: the views are created in the order in which LoadTextures loads
\* the textures
BuildDescriptorHeaps_LoadOrder(textures) ==
  << Srv2D(TexResource(textures, "grassTex")),
     Srv2D(TexResource(textures, "waterTex")),
     Srv2D(TexResource(textures, "fenceTex")),
     Srv2DArray(TexResource(textures, "treeArrayTex")),
     Srv2D(TexResource(textures, "brickTex")),
     Srv2D(TexResource(textures, "ballTex")),
     Srv2D(TexResource(textures, "darkBrickTex")),
     Srv2D(TexResource(textures, "darkLightBrickTex")),
     Srv2D(TexResource(textures, "lightBrickTex")),
     Srv2D(TexResource(textures, "redTileTex")),
     Srv2D(TexResource(textures, "glassTex")),
     Srv2D(TexResource(textures, "sandTex")) >>

BuildDescriptorHeaps(textures) ==
  << Srv2D(TexResource(textures, "grassTex")),
     Srv2D(TexResource(textures, "waterTex")),
     Srv2D(TexResource(textures, "fenceTex")),
     Srv2D(TexResource(textures, "brickTex")),
     Srv2D(TexResource(textures, "ballTex")),
     Srv2D(TexResource(textures, "darkBrickTex")),
     Srv2D(TexResource(textures, "darkLightBrickTex")),
     Srv2D(TexResource(textures, "lightBrickTex")),
     Srv2D(TexResource(textures, "redTileTex")),
     Srv2D(TexResource(textures, "glassTex")),
     Srv2D(TexResource(textures, "sandTex")),
     Srv2DArray(TexResource(textures, "treeArrayTex")) >>

\* ------------------------------------------------------------------------
\* Geometries and their DrawArgs
\* ------------------------------------------------------------------------
Submesh(geo, sub) ==
  [IndexCount |-> <<"IndexCount", geo, sub>>,
   StartIndexLocation |-> <<"StartIndexLocation", geo, sub>>,
   BaseVertexLocation |-> <<"BaseVertexLocation", geo, sub>>]

\* a value-initialised SubmeshGeometry, as std::unordered_map::operator[]
\* inserts for a key that is not present
DefaultSubmesh ==
  [IndexCount |-> <<"0", "", "">>,
   StartIndexLocation |-> <<"0", "", "">>,
   BaseVertexLocation |-> <<"0", "", "">>]

\* GPU resources a vertex buffer pointer can refer to: none, the default
\* buffer created for a geometry, the WavesVB of frame resource fr
NullResource == <<"null", "", NullPtr>>
DefaultBuffer(geo) == <<"DefaultBuffer", geo, NullPtr>>
WavesVBResource(fr) == <<"WavesVB", "", fr>>

MeshGeometry(name, subs, vb) ==
  [Name |-> name, DrawArgs |-> [s \in subs |-> Submesh(name, s)], VertexBufferGPU |-> vb]

BuildLandGeometry == MeshGeometry("landGeo", {"grid"}, DefaultBuffer("landGeo"))
BuildWavesGeometry == MeshGeometry("waterGeo", {"grid"}, NullResource)
BuildBoxGeometry == MeshGeometry("boxGeo", {"box"}, DefaultBuffer("boxGeo"))
BuildTreeSpritesGeometry == MeshGeometry("treeSpritesGeo", {"points"}, DefaultBuffer("treeSpritesGeo"))
BuildShapeGeometry ==
  MeshGeometry("shapeGeo",
               {"box", "grid", "sphere", "cylinder", "pyramid", "diamond",
                "triangularPrism", "cone", "tetrahedron", "wedge", "geoSphere", "quad"},
               DefaultBuffer("shapeGeo"))

BuildGeometries ==
  LET gs == {BuildLandGeometry, BuildWavesGeometry, BuildBoxGeometry,
             BuildTreeSpritesGeometry, BuildShapeGeometry}
  IN [n \in {g.Name : g \in gs} |-> CHOOSE g \in gs : g.Name = n]

\* geo->DrawArgs["sub"]
DrawArgsAt(geos, geo, sub) ==
  IF geo \in DOMAIN geos /\ sub \in DOMAIN geos[geo].DrawArgs
  THEN geos[geo].DrawArgs[sub] ELSE DefaultSubmesh

\* ------------------------------------------------------------------------
\* BuildMaterials
\* ------------------------------------------------------------------------
\* Material with the defaults of its declaration and the fields the
\* function sets
Material(name, cbIndex, srvIndex, albedo, fresnel, roughness) ==
  [Name |-> name, MatCBIndex |-> cbIndex, DiffuseSrvHeapIndex |-> srvIndex,
   DiffuseAlbedo |-> albedo, FresnelR0 |-> fresnel, Roughness |-> roughness,
   MatTransform |-> [tu |-> 0, tv |-> 0],
   NumFramesDirty |-> gNumFrameResources]

BuildMaterials ==
  LET ms == { Material("grass", 0, 0, "1,1,1,1", "0.01", "0.125"),
              Material("water", 1, 1, "1,1,1,0.5", "0.1", "0.0"),
              Material("wirefence", 2, 2, "1,1,1,1", "0.02", "0.25"),
              Material("treeSprites", 11, 11, "1,1,1,1", "0.01", "0.125"),
              Material("brick", 3, 3, "1,1,1,1", "0.01", "0.125"),
              Material("ball", 4, 4, "1,1,1,1", "0.01", "0.125"),
              Material("darkBrick", 5, 5, "1,1,1,1", "0.01", "0.125"),
              Material("darkLightBrick", 6, 6, "1,1,1,1", "0.01", "0.125"),
              Material("lightBrick", 7, 7, "1,1,1,1", "0.01", "0.125"),
              Material("redTile", 8, 8, "1,1,1,1", "0.01", "0.125"),
              Material("glass", 9, 9, "1,1,1,1", "0.01", "0.125"),
              Material("sand", 10, 10, "1,1,1,1", "0.01", "0.125") }
  IN [n \in {m.Name : m \in ms} |-> CHOOSE m \in ms : m.Name = n]

\* mMaterials["x"].get() and mGeometries["x"].get(): the key, or nullptr for
\* a key that is not in the map
MatPtr(mats, name) == IF name \in DOMAIN mats THEN name ELSE "nullptr"
GeoPtr(geos, name) == IF name \in DOMAIN geos THEN name ELSE "nullptr"

\* ------------------------------------------------------------------------
\* RenderItem and BuildRenderItems
\* ------------------------------------------------------------------------
\* one block of BuildRenderItems: the values it stores and the layer it
\* pushes the item to
Ritem(cbIndex, texTransform, mat, geo, prim, sub, layer) ==
  [ObjCBIndex |-> cbIndex, World |-> WorldOf(cbIndex),
   TexTransform |-> IF texTransform = "Scaling50" THEN XMMatrixScaling50 ELSE Identity4x4,
   Mat |-> mat, Geo |-> geo, PrimitiveType |-> prim,
   IndexCountSub |-> sub, StartIndexSub |-> sub, BaseVertexSub |-> sub,
   Layer |-> layer]

\* mutant: the submesh is looked up under a name shapeGeo does not have
BuildBox_UnknownSubmesh(cbIndex) ==
  Ritem(cbIndex, "Identity4x4", "brick", "shapeGeo", "TRIANGLELIST", "cube", "AlphaTested")

BuildBox(cbIndex) ==
  Ritem(cbIndex, "Identity4x4", "brick", "shapeGeo", "TRIANGLELIST", "box", "AlphaTested")

RitemBlocks == <<
    Ritem(0, "Scaling50", "water", "waterGeo", "TRIANGLELIST", "grid", "Transparent"),
    Ritem(1, "Identity4x4", "grass", "shapeGeo", "TRIANGLELIST", "box", "Opaque"),
    Ritem(2, "Identity4x4", "treeSprites", "treeSpritesGeo", "POINTLIST", "points", "AlphaTestedTreeSprites"),
    Ritem(3, "Identity4x4", "darkBrick", "shapeGeo", "TRIANGLELIST", "box", "AlphaTested"),
    Ritem(4, "Identity4x4", "darkBrick", "shapeGeo", "TRIANGLELIST", "box", "AlphaTested"),
    Ritem(5, "Identity4x4", "darkBrick", "shapeGeo", "TRIANGLELIST", "box", "AlphaTested"),
    Ritem(6, "Identity4x4", "darkBrick", "shapeGeo", "TRIANGLELIST", "box", "AlphaTested"),
    Ritem(7, "Identity4x4", "darkBrick", "shapeGeo", "TRIANGLELIST", "box", "AlphaTested"),
    Ritem(8, "Identity4x4", "darkBrick", "shapeGeo", "TRIANGLELIST", "cylinder", "AlphaTested"),
    Ritem(9, "Identity4x4", "darkBrick", "shapeGeo", "TRIANGLELIST", "cylinder", "AlphaTested"),
    Ritem(10, "Identity4x4", "darkBrick", "shapeGeo", "TRIANGLELIST", "cylinder", "AlphaTested"),
    Ritem(11, "Identity4x4", "darkBrick", "shapeGeo", "TRIANGLELIST", "cylinder", "AlphaTested"),
    Ritem(12, "Identity4x4", "redTile", "shapeGeo", "TRIANGLELIST", "cone", "AlphaTested"),
    Ritem(13, "Identity4x4", "redTile", "shapeGeo", "TRIANGLELIST", "cone", "AlphaTested"),
    Ritem(14, "Identity4x4", "redTile", "shapeGeo", "TRIANGLELIST", "cone", "AlphaTested"),
    Ritem(15, "Identity4x4", "redTile", "shapeGeo", "TRIANGLELIST", "cone", "AlphaTested"),
    Ritem(16, "Identity4x4", "darkLightBrick", "shapeGeo", "TRIANGLELIST", "box", "AlphaTested"),
    Ritem(17, "Identity4x4", "darkLightBrick", "shapeGeo", "TRIANGLELIST", "box", "AlphaTested"),
    Ritem(18, "Identity4x4", "darkLightBrick", "shapeGeo", "TRIANGLELIST", "box", "AlphaTested"),
    Ritem(19, "Identity4x4", "darkLightBrick", "shapeGeo", "TRIANGLELIST", "cylinder", "AlphaTested"),
    Ritem(20, "Identity4x4", "darkLightBrick", "shapeGeo", "TRIANGLELIST", "cylinder", "AlphaTested"),
    Ritem(21, "Identity4x4", "glass", "shapeGeo", "TRIANGLELIST", "diamond", "AlphaTested"),
    Ritem(22, "Identity4x4", "glass", "shapeGeo", "TRIANGLELIST", "diamond", "AlphaTested"),
    Ritem(23, "Identity4x4", "ball", "shapeGeo", "TRIANGLELIST", "sphere", "AlphaTested"),
    Ritem(24, "Identity4x4", "ball", "shapeGeo", "TRIANGLELIST", "sphere", "AlphaTested"),
    Ritem(25, "Identity4x4", "sand", "shapeGeo", "TRIANGLELIST", "triangularPrism", "AlphaTested"),
    Ritem(26, "Identity4x4", "sand", "shapeGeo", "TRIANGLELIST", "triangularPrism", "AlphaTested"),
    Ritem(27, "Identity4x4", "sand", "shapeGeo", "TRIANGLELIST", "triangularPrism", "AlphaTested"),
    Ritem(28, "Identity4x4", "sand", "shapeGeo", "TRIANGLELIST", "wedge", "AlphaTested"),
    Ritem(29, "Identity4x4", "sand", "shapeGeo", "TRIANGLELIST", "wedge", "AlphaTested"),
    Ritem(30, "Identity4x4", "sand", "shapeGeo", "TRIANGLELIST", "triangularPrism", "AlphaTested"),
    Ritem(31, "Identity4x4", "lightBrick", "shapeGeo", "TRIANGLELIST", "box", "AlphaTested"),
    Ritem(32, "Identity4x4", "lightBrick", "shapeGeo", "TRIANGLELIST", "box", "AlphaTested"),
    Ritem(33, "Identity4x4", "lightBrick", "shapeGeo", "TRIANGLELIST", "box", "AlphaTested"),
    Ritem(34, "Identity4x4", "lightBrick", "shapeGeo", "TRIANGLELIST", "box", "AlphaTested"),
    Ritem(35, "Identity4x4", "lightBrick", "shapeGeo", "TRIANGLELIST", "box", "AlphaTested"),
    Ritem(36, "Identity4x4", "lightBrick", "shapeGeo", "TRIANGLELIST", "box", "AlphaTested"),
    Ritem(37, "Identity4x4", "lightBrick", "shapeGeo", "TRIANGLELIST", "box", "AlphaTested"),
    Ritem(38, "Identity4x4", "brick", "shapeGeo", "TRIANGLELIST", "box", "AlphaTested"),
    Ritem(39, "Identity4x4", "wirefence", "shapeGeo", "TRIANGLELIST", "quad", "AlphaTested"),
    Ritem(40, "Identity4x4", "glass", "shapeGeo", "TRIANGLELIST", "tetrahedron", "AlphaTested"),
    Ritem(41, "Identity4x4", "glass", "shapeGeo", "TRIANGLELIST", "tetrahedron", "AlphaTested"),
    Ritem(42, "Identity4x4", "glass", "shapeGeo", "TRIANGLELIST", "pyramid", "AlphaTested"),
    Ritem(43, "Identity4x4", "glass", "shapeGeo", "TRIANGLELIST", "pyramid", "AlphaTested"),
    Ritem(44, "Identity4x4", "ball", "shapeGeo", "TRIANGLELIST", "sphere", "AlphaTested"),
    BuildBox(45),
    BuildBox(46),
    BuildBox(47),
    BuildBox(48),
    BuildBox(49),
    BuildBox(50),
    BuildBox(51),
    BuildBox(52),
    BuildBox(53),
    BuildBox(54),
    BuildBox(55),
    BuildBox(56),
    BuildBox(57),
    BuildBox(58),
    BuildBox(59),
    BuildBox(60),
    BuildBox(61),
    BuildBox(62),
    BuildBox(63),
    BuildBox(64),
    BuildBox(65),
    BuildBox(66),
    BuildBox(67),
    BuildBox(68),
    BuildBox(69),
    BuildBox(70),
    BuildBox(71),
    BuildBox(72),
    BuildBox(73),
    BuildBox(74),
    BuildBox(75),
    BuildBox(76),
    BuildBox(77),
    BuildBox(78),
    BuildBox(79),
    BuildBox(80),
    BuildBox(81),
    BuildBox(82),
    BuildBox(83),
    BuildBox(84),
    BuildBox(85),
    BuildBox(86),
    BuildBox(87),
    BuildBox(88),
    BuildBox(89),
    BuildBox(90),
    BuildBox(91),
    BuildBox(92),
    BuildBox(93),
    BuildBox(94),
    BuildBox(95),
    BuildBox(96),
    BuildBox(97),
    BuildBox(98),
    BuildBox(99),
    BuildBox(100),
    BuildBox(101),
    BuildBox(102),
    BuildBox(103) >>

\* the RenderItem a block leaves in mAllRitems
MakeRenderItem(b, mats, geos) ==
  [World |-> b.World, TexTransform |-> b.TexTransform,
   NumFramesDirty |-> gNumFrameResources,
   ObjCBIndex |-> b.ObjCBIndex,
   Mat |-> MatPtr(mats, b.Mat), Geo |-> GeoPtr(geos, b.Geo),
   PrimitiveType |-> b.PrimitiveType,
   IndexCount |-> DrawArgsAt(geos, b.Geo, b.IndexCountSub).IndexCount,
   StartIndexLocation |-> DrawArgsAt(geos, b.Geo, b.StartIndexSub).StartIndexLocation,
   BaseVertexLocation |-> DrawArgsAt(geos, b.Geo, b.BaseVertexSub).BaseVertexLocation]

BuildRenderItems(mats, geos) ==
  [i \in 1..Len(RitemBlocks) |-> MakeRenderItem(RitemBlocks[i], mats, geos)]

RenderLayers == {"Opaque", "Transparent", "AlphaTested", "AlphaTestedTreeSprites"}

\* indices (into mAllRitems) of the items pushed to a layer, in push order
LayerItems(layer) ==
  SelectSeq([i \in 1..Len(RitemBlocks) |-> i], LAMBDA i : RitemBlocks[i].Layer = layer)

BuildRitemLayers == [l \in RenderLayers |-> LayerItems(l)]

\* mWavesRitem: the position in mAllRitems of the item BuildRenderItems
\* pushes first
mWavesRitem == 1

\* ------------------------------------------------------------------------
\* BuildPSOs
\* ------------------------------------------------------------------------
OpaquePsoDesc ==
  [InputLayout |-> "mStdInputLayout", VS |-> "standardVS", GS |-> "", PS |-> "opaquePS",
   BlendEnable |-> FALSE, CullMode |-> "BACK", PrimitiveTopologyType |-> "TRIANGLE"]

TransparentPsoDesc == [OpaquePsoDesc EXCEPT !.BlendEnable = TRUE]

AlphaTestedPsoDesc == [OpaquePsoDesc EXCEPT !.PS = "alphaTestedPS", !.CullMode = "NONE"]

\* mutant: the topology type of the opaque description is kept
TreeSpritePsoDesc_Triangle ==
  [OpaquePsoDesc EXCEPT !.VS = "treeSpriteVS", !.GS = "treeSpriteGS", !.PS = "treeSpritePS",
                        !.InputLayout = "mTreeSpriteInputLayout", !.CullMode = "NONE"]

TreeSpritePsoDesc ==
  [OpaquePsoDesc EXCEPT !.VS = "treeSpriteVS", !.GS = "treeSpriteGS", !.PS = "treeSpritePS",
                        !.PrimitiveTopologyType = "POINT",
                        !.InputLayout = "mTreeSpriteInputLayout", !.CullMode = "NONE"]

BuildPSOs ==
  [n \in {"opaque", "transparent", "alphaTested", "treeSprites"} |->
     CASE n = "opaque" -> OpaquePsoDesc
       [] n = "transparent" -> TransparentPsoDesc
       [] n = "alphaTested" -> AlphaTestedPsoDesc
       [] n = "treeSprites" -> TreeSpritePsoDesc]

\* ------------------------------------------------------------------------
\* Waves
\* ------------------------------------------------------------------------
\* the wave simulation: grid size, number of Update steps and of Disturb
\* calls that produced the current solution
Waves(m, n) == [RowCount |-> m, ColumnCount |-> n, updates |-> 0, disturbs |-> 0]

VertexCount(waves) == waves.RowCount * waves.ColumnCount

\* the vertex UpdateWaves derives from vertex i of the current solution
WaveVertex(waves, i) ==
  [Pos |-> <<"Position", waves.updates, waves.disturbs, i>>,
   Normal |-> <<"Normal", waves.updates, waves.disturbs, i>>,
   TexC |-> <<"TexC", waves.updates, waves.disturbs, i>>]

UnwrittenVertex ==
  [Pos |-> <<"unwritten", 0, 0, 0>>, Normal |-> <<"unwritten", 0, 0, 0>>,
   TexC |-> <<"unwritten", 0, 0, 0>>]

\* ------------------------------------------------------------------------
\* Camera
\* ------------------------------------------------------------------------
\* angles in hundredths of a degree
Camera == [pitch |-> 0, yaw |-> 0]
Pitch(camera, angle) == [camera EXCEPT !.pitch = @ + angle]
RotateY(camera, angle) == [camera EXCEPT !.yaw = @ + angle]
GetView(camera) == <<"View", camera>>

\* ------------------------------------------------------------------------
\* UploadBuffer and FrameResource
\* ------------------------------------------------------------------------
\* an upload buffer of n elements: element i holds the data last copied
\* into it and the number of CopyData calls it has received
UploadBuffer(n, unwritten) == [i \in 0..(n - 1) |-> [data |-> unwritten, writes |-> 0]]

CopyData(buf, i, v) == [buf EXCEPT ![i] = [data |-> v, writes |-> @.writes + 1]]

UnwrittenObjectConstants == [World |-> UnwrittenMatrix, TexTransform |-> UnwrittenMatrix]
UnwrittenMaterialConstants ==
  [DiffuseAlbedo |-> "unwritten", FresnelR0 |-> "unwritten", Roughness |-> "unwritten",
   MatTransform |-> UnwrittenTransform]

UnwrittenPassConstants ==
  [View |-> <<"unwritten", <<"View", Camera>>>>, TotalTime |-> -1, DeltaTime |-> -1]

FrameResource(passCount, objectCount, materialCount, waveVertCount) ==
  [Fence |-> 0,
   PassCB |-> UploadBuffer(passCount, UnwrittenPassConstants),
   ObjectCB |-> UploadBuffer(objectCount, UnwrittenObjectConstants),
   MaterialCB |-> UploadBuffer(materialCount, UnwrittenMaterialConstants),
   WavesVB |-> UploadBuffer(waveVertCount, UnwrittenVertex)]

BuildFrameResources(items, mats, waves) ==
  [i \in 1..gNumFrameResources |->
     FrameResource(1, Len(items), Cardinality(DOMAIN mats), VertexCount(waves))]

\* ------------------------------------------------------------------------
\* State
\* ------------------------------------------------------------------------
VARIABLES
  pc,                       \* position of the CPU thread in Initialize / Run
  mTextures, mSrvDescriptorHeap, mGeometries, mMaterials,
  mAllRitems, mRitemLayer,
  mFrameResources,          \* 1..gNumFrameResources, C++ index i is i + 1 here
  mCurrFrameResource,       \* C++ index of the pointed-to frame resource, or NullPtr
  mCurrFrameResourceIndex,
  mCurrentFence,
  cmdQueue,                 \* mCommandQueue: submitted, not yet started entries
  gpuRunning,               \* the command list the GPU is executing
  fenceCompleted,           \* mFence->GetCompletedValue()
  frames,                   \* history: one record per Draw
  lastDraw,                 \* draw calls recorded by the latest Draw
  mPSOs,
  mCommandList,             \* state of the command list: closed or recording
  mCurrBackBuffer,
  backBufferState,          \* resource state of each swap-chain buffer
  apiLog,                   \* calls of the latest Initialize or Draw, in order
  apiFailed,                \* a call was made in a state that does not allow it
  mMainPassCB,
  totalTime,                \* mTimer.TotalTime(), in DeltaTimes units
  t_base,                   \* quarter seconds added to the static t_base of UpdateWaves
  mWaves,
  mLastMousePos,
  mCamera,
  msg,                      \* the mouse message being dispatched
  mouseEvents               \* number of mouse messages dispatched

vars == << pc, mTextures, mSrvDescriptorHeap, mGeometries, mMaterials,
           mAllRitems, mRitemLayer, mFrameResources, mCurrFrameResource,
           mCurrFrameResourceIndex, mCurrentFence, cmdQueue, gpuRunning,
           fenceCompleted, frames, lastDraw, mPSOs, mCommandList,
           mCurrBackBuffer, backBufferState, apiLog, apiFailed, mMainPassCB,
           totalTime, t_base, mWaves, mLastMousePos, mCamera, msg, mouseEvents >>

sceneVars == << mTextures, mSrvDescriptorHeap, mRitemLayer >>
gpuVars == << cmdQueue, gpuRunning, fenceCompleted >>
cmdListVars == << mCommandList, mCurrBackBuffer, backBufferState, apiLog, apiFailed >>
timeVars == << mMainPassCB, totalTime, t_base, mWaves >>
inputVars == << mLastMousePos, mCamera, msg, mouseEvents >>

SwapChainBufferCount == 2

NoMessage == [type |-> "none", btnState |-> 0, x |-> 0, y |-> 0]

GpuIdle == [type |-> "idle", fr |-> NullPtr, frame |-> 0, value |-> 0]
ExecEntry(fr, frame) == [type |-> "exec", fr |-> fr, frame |-> frame, value |-> 0]
SignalEntry(v) == [type |-> "signal", fr |-> NullPtr, frame |-> 0, value |-> v]

\* the frame resource mCurrFrameResource points to
CurrFR == mFrameResources[mCurrFrameResource + 1]

Init ==
  /\ pc = "Initialize"
  /\ mTextures = <<>>
  /\ mSrvDescriptorHeap = <<>>
  /\ mGeometries = <<>>
  /\ mMaterials = <<>>
  /\ mAllRitems = <<>>
  /\ mRitemLayer = [l \in RenderLayers |-> <<>>]
  /\ mFrameResources = <<>>
  /\ mCurrFrameResource = NullPtr
  /\ mCurrFrameResourceIndex = 0
  /\ mCurrentFence = 0
  /\ cmdQueue = <<>>
  /\ gpuRunning = GpuIdle
  /\ fenceCompleted = 0
  /\ frames = <<>>
  /\ lastDraw = <<>>
  /\ mPSOs = <<>>
  /\ mCommandList = [state |-> "closed", pso |-> "", submitted |-> TRUE]
  /\ mCurrBackBuffer = 0
  /\ backBufferState = [b \in 0..(SwapChainBufferCount - 1) |-> "PRESENT"]
  /\ apiLog = <<>>
  /\ apiFailed = FALSE
  /\ mMainPassCB = [View |-> <<"Identity4x4", <<"View", Camera>>>>,
                    TotalTime |-> 0, DeltaTime |-> 0]
  /\ totalTime = 0
  /\ t_base = 0
  /\ mWaves = Waves(0, 0)
  /\ mLastMousePos = [set |-> FALSE, x |-> 0, y |-> 0]
  /\ mCamera = Camera
  /\ msg = NoMessage
  /\ mouseEvents = 0

\* ------------------------------------------------------------------------
\* DrawRenderItems and the calls recorded into the command list
\* ------------------------------------------------------------------------
\* one iteration of the loop of DrawRenderItems: what the draw call binds,
\* with the contents of the constant-buffer elements it addresses
DrawCall(pso, i) ==
  LET ri == mAllRitems[i]
      mat == mMaterials[ri.Mat]
  IN [item |-> i, pso |-> pso, fr |-> mCurrFrameResource,
      geo |-> ri.Geo, vb |-> mGeometries[ri.Geo].VertexBufferGPU,
      topology |-> ri.PrimitiveType,
      tex |-> mat.DiffuseSrvHeapIndex,
      objSlot |-> ri.ObjCBIndex, matSlot |-> mat.MatCBIndex,
      obj |-> CurrFR.ObjectCB[ri.ObjCBIndex],
      mat |-> CurrFR.MaterialCB[mat.MatCBIndex],
      IndexCount |-> ri.IndexCount, StartIndexLocation |-> ri.StartIndexLocation,
      BaseVertexLocation |-> ri.BaseVertexLocation]

DrawRenderItems(pso, ritems) == [j \in 1..Len(ritems) |-> DrawCall(pso, ritems[j])]

\* a call made on the command allocator, the command list, the command
\* queue or the swap chain
ApiCall(op, a, b) == [op |-> op, a |-> a, b |-> b]

\* the calls of Initialize between the Reset and the flush of the queue
InitializeCalls ==
  << ApiCall("Reset", "nullptr", ""),
     ApiCall("LoadTextures", "", ""),
     ApiCall("BuildGeometry", "", ""),
     ApiCall("Close", "", ""),
     ApiCall("ExecuteCommandLists", "", "") >>

\* mutant: the back buffer is not made a render target
DrawBegin_NoBarrier ==
  << ApiCall("AllocatorReset", "", ""),
     ApiCall("Reset", "opaque", ""),
     ApiCall("RSSetViewports", "", ""),
     ApiCall("RSSetScissorRects", "", ""),
     ApiCall("ClearRenderTargetView", "", ""),
     ApiCall("ClearDepthStencilView", "", ""),
     ApiCall("OMSetRenderTargets", "", ""),
     ApiCall("SetDescriptorHeaps", "", ""),
     ApiCall("SetGraphicsRootSignature", "", ""),
     ApiCall("SetGraphicsRootConstantBufferView", "2", "PassCB") >>

\* Draw up to the binding of the pass constants
DrawBegin ==
  << ApiCall("AllocatorReset", "", ""),
     ApiCall("Reset", "opaque", ""),
     ApiCall("RSSetViewports", "", ""),
     ApiCall("RSSetScissorRects", "", ""),
     ApiCall("ResourceBarrier", "PRESENT", "RENDER_TARGET"),
     ApiCall("ClearRenderTargetView", "", ""),
     ApiCall("ClearDepthStencilView", "", ""),
     ApiCall("OMSetRenderTargets", "", ""),
     ApiCall("SetDescriptorHeaps", "", ""),
     ApiCall("SetGraphicsRootSignature", "", ""),
     ApiCall("SetGraphicsRootConstantBufferView", "2", "PassCB") >>

\* mutant: the layers are drawn in the order of the RenderLayer enum
DrawLayers_EnumOrder ==
  << ApiCall("DrawRenderItems", "Opaque", ""),
     ApiCall("SetPipelineState", "transparent", ""),
     ApiCall("DrawRenderItems", "Transparent", ""),
     ApiCall("SetPipelineState", "alphaTested", ""),
     ApiCall("DrawRenderItems", "AlphaTested", ""),
     ApiCall("SetPipelineState", "treeSprites", ""),
     ApiCall("DrawRenderItems", "AlphaTestedTreeSprites", "") >>

\* the layers in the order Draw passes them to DrawRenderItems
DrawLayers ==
  << ApiCall("DrawRenderItems", "Opaque", ""),
     ApiCall("SetPipelineState", "alphaTested", ""),
     ApiCall("DrawRenderItems", "AlphaTested", ""),
     ApiCall("SetPipelineState", "treeSprites", ""),
     ApiCall("DrawRenderItems", "AlphaTestedTreeSprites", ""),
     ApiCall("SetPipelineState", "transparent", ""),
     ApiCall("DrawRenderItems", "Transparent", "") >>

\* mutant: the list is executed without having been closed
DrawEnd_NoClose ==
  << ApiCall("ResourceBarrier", "RENDER_TARGET", "PRESENT"),
     ApiCall("ExecuteCommandLists", "", ""),
     ApiCall("Present", "", ""),
     ApiCall("Signal", "", "") >>

\* Draw from the second barrier to the Signal
DrawEnd ==
  << ApiCall("ResourceBarrier", "RENDER_TARGET", "PRESENT"),
     ApiCall("Close", "", ""),
     ApiCall("ExecuteCommandLists", "", ""),
     ApiCall("Present", "", ""),
     ApiCall("Signal", "", "") >>

DrawCalls == DrawBegin \o DrawLayers \o DrawEnd

\* the command list, the back buffers and what has been recorded, as the
\* calls of a handler find them
ListState ==
  [list |-> mCommandList.state, pso |-> mCommandList.pso,
   submitted |-> mCommandList.submitted, bb |-> backBufferState,
   passCB |-> NullPtr, log |-> <<>>, draws |-> <<>>, failed |-> FALSE]

\* calls that are made on the queue, the allocator or the swap chain and
\* those that need no recording list
OffListCalls == {"AllocatorReset", "Reset", "ExecuteCommandLists", "Present", "Signal"}

\* the effect of one call; every call is logged with the state it was made in
Apply(st, c) ==
  LET s0 == [st EXCEPT !.log = Append(@, [op |-> c.op, a |-> c.a, b |-> c.b,
                                          list |-> st.list, pso |-> st.pso,
                                          bb |-> st.bb[mCurrBackBuffer]])]
      fail == [s0 EXCEPT !.failed = TRUE]
  IN CASE c.op = "AllocatorReset" ->
            IF st.list = "closed" /\ st.submitted THEN s0 ELSE fail
       [] c.op = "Reset" ->
            IF st.list = "closed"
            THEN [s0 EXCEPT !.list = "recording", !.pso = c.a, !.submitted = FALSE]
            ELSE fail
       [] c.op = "Close" ->
            IF st.list = "recording" THEN [s0 EXCEPT !.list = "closed"] ELSE fail
       [] c.op = "ExecuteCommandLists" ->
            IF st.list = "closed" THEN [s0 EXCEPT !.submitted = TRUE] ELSE fail
       [] c.op \in {"Present", "Signal"} -> s0
       [] c.op = "ResourceBarrier" ->
            IF st.list = "recording"
            THEN [s0 EXCEPT !.bb[mCurrBackBuffer] = c.b] ELSE fail
       [] c.op = "SetPipelineState" ->
            IF st.list = "recording" THEN [s0 EXCEPT !.pso = c.a] ELSE fail
       [] c.op = "SetGraphicsRootConstantBufferView" ->
            IF st.list = "recording" THEN [s0 EXCEPT !.passCB = mCurrFrameResource] ELSE fail
       [] c.op = "DrawRenderItems" ->
            IF st.list = "recording"
            THEN [s0 EXCEPT !.draws = @ \o DrawRenderItems(st.pso, mRitemLayer[c.a])]
            ELSE fail
       [] OTHER -> IF st.list = "recording" THEN s0 ELSE fail

RECURSIVE RunCalls(_, _, _)
\* the first n calls of a handler, made in order
RunCalls(st, calls, n) ==
  IF n = 0 THEN st ELSE Apply(RunCalls(st, calls, n - 1), calls[n])

\* ------------------------------------------------------------------------
\* Initialize
\* ------------------------------------------------------------------------
\* mutant: the Signal is enqueued before the command list
SignalThenSubmit(queue, entry, fence) == Append(Append(queue, SignalEntry(fence)), entry)

\* mutant: the command list is submitted and no Signal follows
SubmitOnly(queue, entry, fence) == Append(queue, entry)

\* the end of Draw: ExecuteCommandLists followed by Signal(mFence, fence)
SubmitAndSignal(queue, entry, fence) == Append(Append(queue, entry), SignalEntry(fence))

\* Initialize up to the Signal of FlushCommandQueue
Initialize ==
  /\ pc = "Initialize"
  /\ mWaves' = Waves(WaveGrid, WaveGrid)
  /\ mTextures' = LoadTextures
  /\ mSrvDescriptorHeap' = BuildDescriptorHeaps(mTextures')
  /\ mGeometries' = BuildGeometries
  /\ mMaterials' = BuildMaterials
  /\ mAllRitems' = BuildRenderItems(mMaterials', mGeometries')
  /\ mRitemLayer' = BuildRitemLayers
  /\ mFrameResources' = BuildFrameResources(mAllRitems', mMaterials', mWaves')
  /\ mPSOs' = BuildPSOs
  /\ LET r == RunCalls(ListState, InitializeCalls, Len(InitializeCalls))
     IN /\ mCommandList' = [state |-> r.list, pso |-> r.pso, submitted |-> r.submitted]
        /\ backBufferState' = r.bb
        /\ apiLog' = r.log
        /\ apiFailed' = (apiFailed \/ r.failed)
  /\ mCurrentFence' = mCurrentFence + 1
  /\ cmdQueue' = cmdQueue \o << ExecEntry(NullPtr, 0), SignalEntry(mCurrentFence') >>
  /\ pc' = "FlushCommandQueue"
  /\ UNCHANGED << mCurrFrameResource, mCurrFrameResourceIndex, gpuRunning,
                  fenceCompleted, frames, lastDraw, mCurrBackBuffer,
                  mMainPassCB, totalTime, t_base, inputVars >>

\* the wait of FlushCommandQueue that ends Initialize
FlushCommandQueue ==
  /\ pc = "FlushCommandQueue"
  /\ fenceCompleted >= mCurrentFence
  /\ pc' = "Update"
  /\ UNCHANGED << sceneVars, mGeometries, mPSOs, cmdListVars, timeVars, inputVars, mMaterials, mAllRitems, mFrameResources,
                  mCurrFrameResource, mCurrFrameResourceIndex, mCurrentFence,
                  gpuVars, frames, lastDraw >>

\* ------------------------------------------------------------------------
\* Update
\* ------------------------------------------------------------------------
\* mutant: the index is reduced but not advanced
NextFrameResourceIndex_NoAdvance(i) == i % gNumFrameResources

NextFrameResourceIndex(i) == (i + 1) % gNumFrameResources

\* mutants: the comparison with the completed value is inverted, includes
\* equality, or is never true
MustWait_Inverted(fence, completed) == fence # 0 /\ completed > fence
MustWait_OrEqual(fence, completed) == fence # 0 /\ completed <= fence
MustWait_Never(fence, completed) == FALSE

\* the condition under which Update waits for the fence
MustWait(fence, completed) == fence # 0 /\ completed < fence

\* Update from its entry to the fence test. OnKeyboardInput moves the
\* position of the camera, which is not part of the model.
UpdateSelect ==
  /\ pc = "Update"
  /\ Len(frames) < MaxFrames
  /\ mCurrFrameResourceIndex' = NextFrameResourceIndex(mCurrFrameResourceIndex)
  /\ mCurrFrameResource' = mCurrFrameResourceIndex'
  /\ pc' = IF MustWait(mFrameResources[mCurrFrameResource' + 1].Fence, fenceCompleted)
           THEN "UpdateWait" ELSE "UpdateWrite"
  /\ UNCHANGED << sceneVars, mGeometries, mPSOs, cmdListVars, timeVars, inputVars, mMaterials, mAllRitems, mFrameResources,
                  mCurrentFence, gpuVars, frames, lastDraw >>

\* WaitForSingleObject returns once the fence has reached the value
UpdateWait ==
  /\ pc = "UpdateWait"
  /\ fenceCompleted >= CurrFR.Fence
  /\ pc' = "UpdateWrite"
  /\ UNCHANGED << sceneVars, mGeometries, mPSOs, cmdListVars, timeVars, inputVars, mMaterials, mAllRitems, mFrameResources,
                  mCurrFrameResource, mCurrFrameResourceIndex, mCurrentFence,
                  gpuVars, frames, lastDraw >>

\* tu += 0.1f*dt (5*dt units), tv += 0.02f*dt (dt units), one subtraction
\* of 1.0f when the sum reached it
Scroll(t, step) == IF t + step >= OneUnits THEN t + step - OneUnits ELSE t + step

\* mutant: the water material is scrolled but not marked dirty
AnimateMaterials_NotDirty(mats, dt) ==
  [mats EXCEPT !["water"] =
     [@ EXCEPT !.MatTransform = [tu |-> Scroll(@.tu, 5 * dt), tv |-> Scroll(@.tv, dt)]]]

AnimateMaterials(mats, dt) ==
  [mats EXCEPT !["water"] =
     [@ EXCEPT !.MatTransform = [tu |-> Scroll(@.tu, 5 * dt), tv |-> Scroll(@.tv, dt)],
               !.NumFramesDirty = gNumFrameResources]]

ObjectConstantsOf(e) ==
  [World |-> XMMatrixTranspose(e.World), TexTransform |-> XMMatrixTranspose(e.TexTransform)]

MaterialConstantsOf(mat) ==
  [DiffuseAlbedo |-> mat.DiffuseAlbedo, FresnelR0 |-> mat.FresnelR0,
   Roughness |-> mat.Roughness, MatTransform |-> XMMatrixTranspose(mat.MatTransform)]

\* mutant: the last dirty frame is skipped
IsDirty_SkipLast(numFramesDirty) == numFramesDirty > 1

\* whether an item or material is copied by this Update
IsDirty(numFramesDirty) == numFramesDirty > 0

\* the object buffer after the loop of UpdateObjectCBs: an element receives
\* one CopyData per dirty item that addresses it and keeps the data of the
\* last of them
ObjectCBAfter(cb, items) ==
  [s \in DOMAIN cb |->
     LET writers == {i \in DOMAIN items :
                       items[i].ObjCBIndex = s /\ IsDirty(items[i].NumFramesDirty)}
     IN IF writers = {} THEN cb[s]
        ELSE LET last == CHOOSE i \in writers : \A j \in writers : j <= i
             IN [data |-> ObjectConstantsOf(items[last]),
                 writes |-> cb[s].writes + Cardinality(writers)]]

\* mutant: the counter of a copied item is not decremented
RitemsAfterUpdate_NoDecrement(items) == items

\* NumFramesDirty-- of every copied item
RitemsAfterUpdate(items) ==
  [i \in DOMAIN items |->
     IF IsDirty(items[i].NumFramesDirty)
     THEN [items[i] EXCEPT !.NumFramesDirty = @ - 1] ELSE items[i]]

\* the material buffer after the loop of UpdateMaterialCBs; the materials
\* have pairwise different MatCBIndex, so the map's iteration order does not
\* show in the result
MaterialCBAfter(cb, mats) ==
  [s \in DOMAIN cb |->
     IF \E n \in DOMAIN mats : mats[n].MatCBIndex = s /\ IsDirty(mats[n].NumFramesDirty)
     THEN LET n == CHOOSE n \in DOMAIN mats :
                     mats[n].MatCBIndex = s /\ IsDirty(mats[n].NumFramesDirty)
          IN [data |-> MaterialConstantsOf(mats[n]), writes |-> cb[s].writes + 1]
     ELSE cb[s]]

MaterialsAfterUpdate(mats) ==
  [n \in DOMAIN mats |->
     IF IsDirty(mats[n].NumFramesDirty)
     THEN [mats[n] EXCEPT !.NumFramesDirty = @ - 1] ELSE mats[n]]

\* the pass constants UpdateMainPassCB computes
MainPassCB(camera, total, dt) ==
  [View |-> XMMatrixTranspose(GetView(camera)), TotalTime |-> total, DeltaTime |-> dt]

\* mutant: slot 0 is written only while it has never been written
UpdateMainPassCB_OnlyFirst(cb, pass) == IF cb[0].writes = 0 THEN CopyData(cb, 0, pass) ELSE cb

UpdateMainPassCB(cb, pass) == CopyData(cb, 0, pass)

\* (mTimer.TotalTime() - t_base) >= 0.25f, with t_base = 0.25f*base and
\* one DeltaTimes unit = 50/OneUnits seconds
DisturbDue(total, base) == 200 * total >= OneUnits * (base + 1)

\* the simulation after UpdateWaves: a Disturb when one is due, then Update
WavesAfterUpdate(waves, due) ==
  [waves EXCEPT !.disturbs = IF due THEN @ + 1 ELSE @, !.updates = @ + 1]

\* the loop of UpdateWaves: CopyData(i, v) for every vertex of the solution
WavesVBAfter(vb, waves) ==
  [i \in DOMAIN vb |->
     IF i < VertexCount(waves)
     THEN [data |-> WaveVertex(waves, i), writes |-> vb[i].writes + 1] ELSE vb[i]]

\* mutant: the wave geometry always points at the buffer of frame resource 0
CurrWavesVB_First(fr) == WavesVBResource(0)

\* currWavesVB->Resource()
CurrWavesVB(fr) == WavesVBResource(fr)

\* Update after the fence test: AnimateMaterials, UpdateObjectCBs,
\* UpdateMaterialCBs, UpdateMainPassCB, UpdateWaves
UpdateWrite(dt) ==
  /\ pc = "UpdateWrite"
  /\ totalTime' = totalTime + dt
  /\ mMainPassCB' = MainPassCB(mCamera, totalTime', dt)
  /\ t_base' = IF DisturbDue(totalTime', t_base) THEN t_base + 1 ELSE t_base
  /\ mWaves' = WavesAfterUpdate(mWaves, DisturbDue(totalTime', t_base))
  /\ LET animated == AnimateMaterials(mMaterials, dt)
         k == mCurrFrameResource + 1
     IN /\ mFrameResources' =
             [mFrameResources EXCEPT
                ![k].ObjectCB = ObjectCBAfter(@, mAllRitems),
                ![k].MaterialCB = MaterialCBAfter(@, animated),
                ![k].PassCB = UpdateMainPassCB(@, mMainPassCB'),
                ![k].WavesVB = WavesVBAfter(@, mWaves')]
        /\ mAllRitems' = RitemsAfterUpdate(mAllRitems)
        /\ mMaterials' = MaterialsAfterUpdate(animated)
  /\ mGeometries' =
       [mGeometries EXCEPT ![mAllRitems[mWavesRitem].Geo].VertexBufferGPU =
                             CurrWavesVB(mCurrFrameResource)]
  /\ pc' = "Draw"
  /\ UNCHANGED << sceneVars, mPSOs, cmdListVars, inputVars, mCurrFrameResource,
                  mCurrFrameResourceIndex, mCurrentFence, gpuVars, frames, lastDraw >>

\* ------------------------------------------------------------------------
\* Draw
\* ------------------------------------------------------------------------
\* mCurrBackBuffer after Present
NextBackBuffer(b) == (b + 1) % SwapChainBufferCount

\* mutant: the fence value is not advanced
NextFence_Same(f) == f

\* ++mCurrentFence
NextFence(f) == f + 1

Draw ==
  /\ pc = "Draw"
  /\ LET r == RunCalls(ListState, DrawCalls, Len(DrawCalls))
     IN /\ lastDraw' = r.draws
        /\ mCommandList' = [state |-> r.list, pso |-> r.pso, submitted |-> r.submitted]
        /\ backBufferState' = r.bb
        /\ apiLog' = r.log
        /\ apiFailed' = (apiFailed \/ r.failed)
        /\ frames' = Append(frames, [fr |-> mCurrFrameResource, fence |-> NextFence(mCurrentFence),
                                     passCB |-> r.passCB,
                                     pass |-> mFrameResources[r.passCB + 1].PassCB[0],
                                     computed |-> mMainPassCB])
  /\ mCurrBackBuffer' = NextBackBuffer(mCurrBackBuffer)
  /\ mCurrentFence' = NextFence(mCurrentFence)
  /\ mFrameResources' = [mFrameResources EXCEPT ![mCurrFrameResource + 1].Fence = mCurrentFence']
  /\ cmdQueue' = SubmitAndSignal(cmdQueue,
                                 ExecEntry(mCurrFrameResource, Len(frames) + 1),
                                 mCurrentFence')
  /\ pc' = "Update"
  /\ UNCHANGED << sceneVars, mGeometries, mPSOs, timeVars, inputVars, mMaterials,
                  mAllRitems, mCurrFrameResource, mCurrFrameResourceIndex,
                  gpuRunning, fenceCompleted >>

\* ------------------------------------------------------------------------
\* GPU: the command queue is consumed in submission order
\* ------------------------------------------------------------------------
GPUBegin ==
  /\ gpuRunning = GpuIdle
  /\ cmdQueue # <<>>
  /\ Head(cmdQueue).type = "exec"
  /\ gpuRunning' = Head(cmdQueue)
  /\ cmdQueue' = Tail(cmdQueue)
  /\ UNCHANGED << pc, sceneVars, mGeometries, mPSOs, cmdListVars, timeVars, inputVars, mMaterials, mAllRitems, mFrameResources,
                  mCurrFrameResource, mCurrFrameResourceIndex, mCurrentFence,
                  fenceCompleted, frames, lastDraw >>

GPUEnd ==
  /\ gpuRunning # GpuIdle
  /\ gpuRunning' = GpuIdle
  /\ UNCHANGED << pc, sceneVars, mGeometries, mPSOs, cmdListVars, timeVars, inputVars, mMaterials, mAllRitems, mFrameResources,
                  mCurrFrameResource, mCurrFrameResourceIndex, mCurrentFence,
                  cmdQueue, fenceCompleted, frames, lastDraw >>

GPUSignal ==
  /\ gpuRunning = GpuIdle
  /\ cmdQueue # <<>>
  /\ Head(cmdQueue).type = "signal"
  /\ fenceCompleted' = Head(cmdQueue).value
  /\ cmdQueue' = Tail(cmdQueue)
  /\ UNCHANGED << pc, sceneVars, mGeometries, mPSOs, cmdListVars, timeVars, inputVars, mMaterials, mAllRitems, mFrameResources,
                  mCurrFrameResource, mCurrFrameResourceIndex, mCurrentFence,
                  gpuRunning, frames, lastDraw >>

Next ==
  \/ Initialize
  \/ FlushCommandQueue
  \/ UpdateSelect
  \/ UpdateWait
  \/ \E dt \in DeltaTimes : UpdateWrite(dt)
  \/ Draw
  \/ GPUBegin
  \/ GPUEnd
  \/ GPUSignal

Spec == Init /\ [][Next]_vars

\* the GPU completes every command list and every Signal that reaches the
\* head of its queue, and a wait returns once its event has been set
FairSpec ==
  Spec /\ WF_vars(GPUBegin) /\ WF_vars(GPUEnd) /\ WF_vars(GPUSignal) /\ WF_vars(UpdateWait)

\* ------------------------------------------------------------------------
\* Mouse messages, dispatched by the message loop between frames
\* ------------------------------------------------------------------------
frameVars ==
  << pc, sceneVars, mGeometries, mPSOs, cmdListVars, timeVars, mMaterials,
     mAllRitems, mFrameResources, mCurrFrameResource, mCurrFrameResourceIndex,
     mCurrentFence, gpuVars, frames, lastDraw >>

Message(type, btnState, x, y) == [type |-> type, btnState |-> btnState, x |-> x, y |-> y]

\* (btnState & MK_LBUTTON) != 0
LeftDown(btnState) == (btnState \div MK_LBUTTON) % 2 = 1

\* XMConvertToRadians(0.25f*pixels), in hundredths of a degree
MouseAngle(pixels) == 25 * pixels

OnMouseDown(btnState, x, y) ==
  /\ pc = "Update"
  /\ mouseEvents < MaxMouseEvents
  /\ mLastMousePos' = [set |-> TRUE, x |-> x, y |-> y]
  /\ msg' = Message("down", btnState, x, y)
  /\ mouseEvents' = mouseEvents + 1
  /\ UNCHANGED << frameVars, mCamera >>

OnMouseUp(btnState, x, y) ==
  /\ pc = "Update"
  /\ mouseEvents < MaxMouseEvents
  /\ msg' = Message("up", btnState, x, y)
  /\ mouseEvents' = mouseEvents + 1
  /\ UNCHANGED << frameVars, mCamera, mLastMousePos >>

\* mutant: the position is recorded only while the left button is down
OnMouseMoveResult_RecordWhenDown(btnState, last, camera, x, y) ==
  IF LeftDown(btnState)
  THEN [camera |-> RotateY(Pitch(camera, MouseAngle(y - last.y)), MouseAngle(x - last.x)),
        last |-> [set |-> TRUE, x |-> x, y |-> y]]
  ELSE [camera |-> camera, last |-> last]

\* the camera and mLastMousePos after OnMouseMove, last being the value
\* read from mLastMousePos
OnMouseMoveResult(btnState, last, camera, x, y) ==
  [camera |-> IF LeftDown(btnState)
              THEN RotateY(Pitch(camera, MouseAngle(y - last.y)), MouseAngle(x - last.x))
              ELSE camera,
   last |-> [set |-> TRUE, x |-> x, y |-> y]]

\* mLastMousePos has no initializer: until a handler has assigned it, a
\* read yields any value
OnMouseMove(btnState, x, y) ==
  /\ pc = "Update"
  /\ mouseEvents < MaxMouseEvents
  /\ \E gx \in Coords, gy \in Coords :
       LET last == IF mLastMousePos.set THEN mLastMousePos
                   ELSE [set |-> FALSE, x |-> gx, y |-> gy]
           r == OnMouseMoveResult(btnState, last, mCamera, x, y)
       IN /\ mCamera' = r.camera
          /\ mLastMousePos' = r.last
  /\ msg' = Message("move", btnState, x, y)
  /\ mouseEvents' = mouseEvents + 1
  /\ UNCHANGED frameVars

MouseNext ==
  \/ Initialize
  \/ FlushCommandQueue
  \/ GPUBegin
  \/ GPUEnd
  \/ GPUSignal
  \/ \E b \in BtnStates, x \in Coords, y \in Coords : OnMouseDown(b, x, y)
  \/ \E b \in BtnStates, x \in Coords, y \in Coords : OnMouseUp(b, x, y)
  \/ \E b \in BtnStates, x \in Coords, y \in Coords : OnMouseMove(b, x, y)

MouseSpec == Init /\ [][MouseNext]_vars

\* ========================================================================
\* Properties
\* ========================================================================
Initialized == pc \notin {"Initialize"}

\* number of Updates that have run to their end
UpdatesDone == Len(frames) + (IF pc = "Draw" THEN 1 ELSE 0)

\* the GPU has not finished a command list recorded with frame resource fr
PendingOn(fr) ==
  \/ gpuRunning.type = "exec" /\ gpuRunning.fr = fr
  \/ \E k \in DOMAIN cmdQueue : cmdQueue[k].type = "exec" /\ cmdQueue[k].fr = fr

\* the GPU has not finished the command list of frame n
FramePending(n) ==
  \/ gpuRunning.type = "exec" /\ gpuRunning.frame = n
  \/ \E k \in DOMAIN cmdQueue : cmdQueue[k].type = "exec" /\ cmdQueue[k].frame = n

\* frames submitted whose fence value the GPU has not reached
InFlight == Cardinality({n \in DOMAIN frames : frames[n].fence > fenceCompleted})

\* C1: while Update writes the upload buffers of the current frame resource
\* and until Draw resets its command allocator, the completed fence value is
\* >= that frame resource's Fence and the GPU has finished every command
\* list recorded with it.
C1_GpuDoneBeforeReuse ==
  pc \in {"UpdateWrite", "Draw"} =>
    /\ fenceCompleted >= CurrFR.Fence
    /\ ~PendingOn(mCurrFrameResource)

C1_Witness ==
  /\ pc = "UpdateWrite"
  /\ CurrFR.Fence # 0
  /\ fenceCompleted < mCurrentFence

\* C2: Update enters its fence wait only with a selected frame resource
\* whose Fence is non-zero and greater than the completed value; none of the
\* first gNumFrameResources Updates waits, and no Update waits when the GPU
\* has completed the frame submitted gNumFrameResources frames earlier.
C2_WaitsOnlyWhenBehind ==
  [][(pc # "UpdateWait" /\ pc' = "UpdateWait") =>
       LET f == mFrameResources[mCurrFrameResource' + 1].Fence
       IN /\ f # 0
          /\ fenceCompleted < f
          /\ Len(frames) >= gNumFrameResources
          /\ fenceCompleted < frames[Len(frames) - gNumFrameResources + 1].fence]_vars

C2_Witness ==
  /\ pc = "UpdateWait"
  /\ fenceCompleted < CurrFR.Fence

\* C3: at most gNumFrameResources submitted frames have a fence value the
\* GPU has not reached, and at most gNumFrameResources - 1 between the
\* return of Update's fence wait and the submission of the next Draw.
C3_InFlightBounded ==
  /\ InFlight <= gNumFrameResources
  /\ pc \in {"UpdateWrite", "Draw"} => InFlight <= gNumFrameResources - 1

C3_Witness ==
  /\ pc = "Draw"
  /\ InFlight = gNumFrameResources - 1
  /\ Len(frames) >= gNumFrameResources

\* an upload-buffer element was written and holds the given data
Holds(element, data) == element.writes > 0 /\ element.data = data

\* C4: when Draw records the draw calls, element ObjCBIndex of the current
\* frame resource's object buffer holds the item's current World and
\* TexTransform and element MatCBIndex of its material buffer holds the
\* current constants of the item's material, for every render item and from
\* the first frame on; no recorded draw call addresses an unwritten element.
C4_DrawReadsCurrentConstants ==
  /\ pc = "Draw" =>
       \A i \in DOMAIN mAllRitems :
         LET ri == mAllRitems[i]
             mat == mMaterials[ri.Mat]
         IN /\ Holds(CurrFR.ObjectCB[ri.ObjCBIndex], ObjectConstantsOf(ri))
            /\ Holds(CurrFR.MaterialCB[mat.MatCBIndex], MaterialConstantsOf(mat))
  /\ pc = "Update" =>
       \A k \in DOMAIN lastDraw :
         LET d == lastDraw[k]
             ri == mAllRitems[d.item]
         IN /\ Holds(d.obj, ObjectConstantsOf(ri))
            /\ Holds(d.mat, MaterialConstantsOf(mMaterials[ri.Mat]))

C4_Witness ==
  /\ pc = "Update"
  /\ Len(frames) > gNumFrameResources
  /\ Len(lastDraw) = Len(mAllRitems)
  /\ mMaterials["water"].MatTransform.tv > 0

\* C5: the Signal for a frame's fence value is behind that frame's command
\* list in the queue, so a completed value >= the fence value of a frame
\* means its command list has finished; mCurrentFence never decreases and
\* every Draw increases it by exactly one.
C5_SignalAfterCommands ==
  /\ [](\A n \in DOMAIN frames :
          /\ frames[n].fence <= fenceCompleted => ~FramePending(n)
          /\ \A j \in DOMAIN cmdQueue :
               (cmdQueue[j].type = "exec" /\ cmdQueue[j].frame = n) =>
                 \E k \in DOMAIN cmdQueue :
                   k > j /\ cmdQueue[k] = SignalEntry(frames[n].fence))
  /\ [][/\ mCurrentFence' >= mCurrentFence
        /\ (pc = "Draw" /\ pc' = "Update") => mCurrentFence' = mCurrentFence + 1]_vars

C5_Witness ==
  /\ \E n \in DOMAIN frames : frames[n].fence <= fenceCompleted
  /\ \E n \in DOMAIN frames : FramePending(n)

\* number of CopyData calls element s has received, summed over the
\* frame resources
ObjectWrites(s) ==
  LET W[k \in 0..gNumFrameResources] ==
        IF k = 0 THEN 0 ELSE W[k - 1] + mFrameResources[k].ObjectCB[s].writes
  IN W[gNumFrameResources]

MaterialWrites(s) ==
  LET W[k \in 0..gNumFrameResources] ==
        IF k = 0 THEN 0 ELSE W[k - 1] + mFrameResources[k].MaterialCB[s].writes
  IN W[gNumFrameResources]

\* a counter that starts at gNumFrameResources and is not set again: one
\* copy per Update into the frame resource of that Update until it is 0
CopiedOncePerFrameResource(numFramesDirty, totalWrites, writesOf(_)) ==
  /\ numFramesDirty \in 0..gNumFrameResources
  /\ \A k \in 1..gNumFrameResources : writesOf(k) <= 1
  /\ totalWrites <= gNumFrameResources
  /\ UpdatesDone >= gNumFrameResources =>
       /\ numFramesDirty = 0
       /\ \A k \in 1..gNumFrameResources : writesOf(k) = 1

\* C6 as stated: every render item and every material, dirty for
\* gNumFrameResources frames, is copied once into each frame resource by
\* the next gNumFrameResources Updates, has NumFramesDirty 0 after them and
\* is not written again.
C6_Original ==
  Initialized =>
    /\ \A i \in DOMAIN mAllRitems :
         LET ri == mAllRitems[i]
             w(k) == mFrameResources[k].ObjectCB[ri.ObjCBIndex].writes
         IN CopiedOncePerFrameResource(ri.NumFramesDirty, ObjectWrites(ri.ObjCBIndex), w)
    /\ \A n \in DOMAIN mMaterials :
         LET mat == mMaterials[n]
             w(k) == mFrameResources[k].MaterialCB[mat.MatCBIndex].writes
         IN CopiedOncePerFrameResource(mat.NumFramesDirty, MaterialWrites(mat.MatCBIndex), w)

\* C6: every render item and every material other than water is copied
\* once into each frame resource by the first gNumFrameResources Updates,
\* has NumFramesDirty 0 after them and is not written again; NumFramesDirty
\* of every item and material, water included, stays in
\* 0..gNumFrameResources, and every copy lowers it by one.
C6_DirtyCountdown ==
  Initialized =>
    /\ \A i \in DOMAIN mAllRitems :
         LET ri == mAllRitems[i]
             w(k) == mFrameResources[k].ObjectCB[ri.ObjCBIndex].writes
         IN /\ CopiedOncePerFrameResource(ri.NumFramesDirty, ObjectWrites(ri.ObjCBIndex), w)
            /\ ri.NumFramesDirty + ObjectWrites(ri.ObjCBIndex) = gNumFrameResources
    /\ \A n \in DOMAIN mMaterials \ {"water"} :
         LET mat == mMaterials[n]
             w(k) == mFrameResources[k].MaterialCB[mat.MatCBIndex].writes
         IN /\ CopiedOncePerFrameResource(mat.NumFramesDirty, MaterialWrites(mat.MatCBIndex), w)
            /\ mat.NumFramesDirty + MaterialWrites(mat.MatCBIndex) = gNumFrameResources
    /\ mMaterials["water"].NumFramesDirty \in 0..gNumFrameResources

C6_Witness ==
  /\ UpdatesDone > gNumFrameResources
  /\ \A i \in DOMAIN mAllRitems : mAllRitems[i].NumFramesDirty = 0
  /\ ObjectWrites(mAllRitems[Len(mAllRitems)].ObjCBIndex) = gNumFrameResources

\* C7: after BuildRenderItems every render item has a material, a geometry,
\* an ObjCBIndex other than the default -1, and IndexCount,
\* StartIndexLocation and BaseVertexLocation of one submesh present in the
\* DrawArgs of its geometry.
C7_RenderItemsComplete ==
  Initialized =>
    \A i \in DOMAIN mAllRitems :
      LET ri == mAllRitems[i]
      IN /\ ri.Mat \in DOMAIN mMaterials
         /\ ri.Geo \in DOMAIN mGeometries
         /\ ri.ObjCBIndex # -1
         /\ \E sub \in DOMAIN mGeometries[ri.Geo].DrawArgs :
              LET args == mGeometries[ri.Geo].DrawArgs[sub]
              IN /\ ri.IndexCount = args.IndexCount
                 /\ ri.StartIndexLocation = args.StartIndexLocation
                 /\ ri.BaseVertexLocation = args.BaseVertexLocation

C7_Witness ==
  /\ Initialized
  /\ \E i \in DOMAIN mAllRitems :
       /\ mAllRitems[i].ObjCBIndex = 103
       /\ mAllRitems[i].IndexCount = Submesh("shapeGeo", "box").IndexCount

\* C8: after every Update NumFramesDirty of the water material is
\* gNumFrameResources - 1 and the water element of the current frame
\* resource holds the water material's current constants, written by that
\* Update (one write per Update); every other material is written at most
\* once per frame resource.
C8_WaterRewrittenEveryFrame ==
  Initialized =>
    LET water == mMaterials["water"]
    IN /\ UpdatesDone >= 1 => water.NumFramesDirty = gNumFrameResources - 1
       /\ MaterialWrites(water.MatCBIndex) = UpdatesDone
       /\ pc = "Draw" =>
            Holds(CurrFR.MaterialCB[water.MatCBIndex], MaterialConstantsOf(water))
       /\ \A n \in DOMAIN mMaterials \ {"water"} :
            \A k \in 1..gNumFrameResources :
              mFrameResources[k].MaterialCB[mMaterials[n].MatCBIndex].writes <= 1

C8_Witness ==
  /\ pc = "Draw"
  /\ UpdatesDone > gNumFrameResources
  /\ CurrFR.MaterialCB[mMaterials["water"].MatCBIndex].writes >= 2

\* the texture each material is meant to show
MaterialTexture ==
  [n \in {"grass", "water", "wirefence", "treeSprites", "brick", "ball", "darkBrick",
          "darkLightBrick", "lightBrick", "redTile", "glass", "sand"} |->
     CASE n = "wirefence" -> "fenceTex"
       [] n = "treeSprites" -> "treeArrayTex"
       [] n = "grass" -> "grassTex"
       [] n = "water" -> "waterTex"
       [] n = "brick" -> "brickTex"
       [] n = "ball" -> "ballTex"
       [] n = "darkBrick" -> "darkBrickTex"
       [] n = "darkLightBrick" -> "darkLightBrickTex"
       [] n = "lightBrick" -> "lightBrickTex"
       [] n = "redTile" -> "redTileTex"
       [] n = "glass" -> "glassTex"
       [] n = "sand" -> "sandTex"]

\* C9: DiffuseSrvHeapIndex of every material is below NumDescriptors and
\* the descriptor at that heap position views the material's own texture;
\* heap positions follow the material indices, the tree texture array is
\* the last descriptor, at index 11, and every recorded draw call binds the
\* descriptor of its item's material.
C9_SrvHeapMatchesMaterials ==
  Initialized =>
    /\ Len(mSrvDescriptorHeap) = NumDescriptors
    /\ \A n \in DOMAIN mMaterials :
         LET mat == mMaterials[n]
         IN /\ mat.DiffuseSrvHeapIndex \in 0..(NumDescriptors - 1)
            /\ mat.DiffuseSrvHeapIndex = mat.MatCBIndex
            /\ mSrvDescriptorHeap[mat.DiffuseSrvHeapIndex + 1].Resource
                 = mTextures[MaterialTexture[n]].Resource
    /\ mSrvDescriptorHeap[11 + 1] = Srv2DArray(mTextures["treeArrayTex"].Resource)
    /\ \A k \in DOMAIN lastDraw :
         mSrvDescriptorHeap[lastDraw[k].tex + 1].Resource
           = mTextures[MaterialTexture[mAllRitems[lastDraw[k].item].Mat]].Resource

C9_Witness ==
  /\ Initialized
  /\ \E k \in DOMAIN lastDraw :
       /\ lastDraw[k].tex = 11
       /\ mSrvDescriptorHeap[lastDraw[k].tex + 1].Resource = "treeArrayTex"

\* C10: successive Updates select the frame resources in cyclic order,
\* beginning with index 1: frame n uses index n mod gNumFrameResources, the
\* index stays in 0..gNumFrameResources-1, a frame resource is used again
\* exactly gNumFrameResources frames later, and every Draw uses, and stores
\* its fence value into, the frame resource the preceding Update selected.
C10_CyclicFrameResources ==
  /\ mCurrFrameResourceIndex \in 0..(gNumFrameResources - 1)
  /\ \A n \in DOMAIN frames :
       /\ frames[n].fr = n % gNumFrameResources
       /\ \A m \in DOMAIN frames :
            frames[m].fr = frames[n].fr <=> (m - n) % gNumFrameResources = 0
  /\ pc \in {"UpdateWait", "UpdateWrite", "Draw"} =>
       /\ mCurrFrameResource = mCurrFrameResourceIndex
       /\ mCurrFrameResourceIndex = (Len(frames) + 1) % gNumFrameResources
  /\ (pc = "Update" /\ frames # <<>>) =>
       /\ frames[Len(frames)].fr = mCurrFrameResourceIndex
       /\ mFrameResources[mCurrFrameResourceIndex + 1].Fence = frames[Len(frames)].fence
       /\ frames[Len(frames)].fence = mCurrentFence

C10_Witness ==
  /\ pc = "Update"
  /\ Len(frames) > gNumFrameResources
  /\ mCurrFrameResourceIndex = 1

\* ------------------------------------------------------------------------
\* Fences and the command list
\* ------------------------------------------------------------------------
FenceOf(i) == mFrameResources[i].Fence

\* a Signal with value v has reached the queue
Signalled(v) ==
  \/ fenceCompleted >= v
  \/ \E k \in DOMAIN cmdQueue : cmdQueue[k].type = "signal" /\ cmdQueue[k].value = v

\* C11: given a GPU that completes what is submitted to it, every wait of
\* Update returns; the fence value waited for is one whose Signal a
\* previous Draw has already put on the queue.
C11_FenceWaitReturns ==
  /\ [](pc = "UpdateWait" =>
         /\ \E n \in DOMAIN frames : frames[n].fence = CurrFR.Fence
         /\ Signalled(CurrFR.Fence))
  /\ (pc = "UpdateWait" ~> pc = "UpdateWrite")

C11_Witness == pc = "UpdateWait" /\ fenceCompleted < CurrFR.Fence

\* frame resource i - 1 has been used by a Draw
DrawnWith(i) == \E n \in DOMAIN frames : frames[n].fr = i - 1

\* C12: the non-zero Fence values of the frame resources are pairwise
\* distinct and at most mCurrentFence, the frame resource of the latest Draw
\* holds mCurrentFence, and a frame resource never drawn with holds 0.
C12_FenceValues ==
  Initialized =>
    /\ \A i, j \in 1..gNumFrameResources :
         (i # j /\ FenceOf(i) # 0) => FenceOf(i) # FenceOf(j)
    /\ \A i \in 1..gNumFrameResources : FenceOf(i) <= mCurrentFence
    /\ frames # <<>> => FenceOf(frames[Len(frames)].fr + 1) = mCurrentFence
    /\ \A i \in 1..gNumFrameResources : ~DrawnWith(i) => FenceOf(i) = 0

C12_Witness ==
  /\ Len(frames) > gNumFrameResources
  /\ \A i \in 1..gNumFrameResources : FenceOf(i) # 0

\* the calls logged by the latest handler are those of a Draw
DrawLogged == frames # <<>> /\ apiLog # <<>>

\* positions in apiLog of the calls named op
CallsOf(op) == {k \in DOMAIN apiLog : apiLog[k].op = op}

\* C13: the list is Reset only while closed, closed only while recording,
\* recorded into only while recording and executed only while closed; a
\* Draw makes its calls in the order allocator Reset, list Reset,
\* recording, Close, ExecuteCommandLists, Present, Signal; Initialize and
\* every Draw leave the list closed and submitted.
C13_CommandListAlternates ==
  /\ ~apiFailed
  /\ \A k \in DOMAIN apiLog :
       /\ apiLog[k].op \in {"Reset", "ExecuteCommandLists"} => apiLog[k].list = "closed"
       /\ apiLog[k].op \notin OffListCalls => apiLog[k].list = "recording"
  /\ DrawLogged =>
       LET n == Len(apiLog)
       IN /\ n > 6
          /\ apiLog[1].op = "AllocatorReset"
          /\ apiLog[2].op = "Reset"
          /\ \A k \in 3..(n - 4) : apiLog[k].op \notin (OffListCalls \cup {"Close"})
          /\ apiLog[n - 3].op = "Close"
          /\ apiLog[n - 2].op = "ExecuteCommandLists"
          /\ apiLog[n - 1].op = "Present"
          /\ apiLog[n].op = "Signal"
  /\ Initialized => mCommandList.state = "closed" /\ mCommandList.submitted

C13_Witness == Len(frames) >= 2 /\ CallsOf("Close") # {} /\ CallsOf("DrawRenderItems") # {}

\* calls that write to the back buffer
RenderTargetCalls ==
  {"ClearRenderTargetView", "ClearDepthStencilView", "OMSetRenderTargets", "DrawRenderItems"}

\* C14: in a Draw the back buffer goes from PRESENT to RENDER_TARGET before
\* it is cleared or drawn to and back to PRESENT before Close and Present;
\* between frames every back buffer is in the PRESENT state and
\* mCurrBackBuffer has advanced by one modulo SwapChainBufferCount per Draw.
C14_BackBufferTransitions ==
  /\ \A b \in DOMAIN backBufferState : backBufferState[b] = "PRESENT"
  /\ mCurrBackBuffer = Len(frames) % SwapChainBufferCount
  /\ DrawLogged =>
       /\ Cardinality(CallsOf("ResourceBarrier")) = 2
       /\ \A k \in DOMAIN apiLog :
            /\ apiLog[k].op = "ResourceBarrier" => apiLog[k].bb = apiLog[k].a
            /\ apiLog[k].op \in RenderTargetCalls => apiLog[k].bb = "RENDER_TARGET"
            /\ apiLog[k].op \in {"Close", "Present"} => apiLog[k].bb = "PRESENT"

C14_Witness ==
  /\ Len(frames) > SwapChainBufferCount
  /\ \E k \in CallsOf("ResourceBarrier") : apiLog[k].b = "RENDER_TARGET"
  /\ CallsOf("ClearRenderTargetView") # {}

\* the layers of the DrawRenderItems calls logged, in call order
RECURSIVE LayersDrawn(_)
LayersDrawn(n) ==
  IF n = 0 THEN <<>>
  ELSE IF apiLog[n].op = "DrawRenderItems"
       THEN Append(LayersDrawn(n - 1), apiLog[n].a) ELSE LayersDrawn(n - 1)

\* item i of mAllRitems is in layer l
InLayer(i, l) == \E k \in DOMAIN mRitemLayer[l] : mRitemLayer[l][k] = i

\* C15: a Draw draws the layers in the order Opaque, AlphaTested,
\* AlphaTestedTreeSprites, Transparent, each with its own pipeline state
\* set, so every transparent item is drawn after every other item.
C15_LayerOrder ==
  DrawLogged =>
    /\ LayersDrawn(Len(apiLog)) =
         << "Opaque", "AlphaTested", "AlphaTestedTreeSprites", "Transparent" >>
    /\ \A k \in CallsOf("DrawRenderItems") :
         apiLog[k].pso = CASE apiLog[k].a = "Opaque" -> "opaque"
                           [] apiLog[k].a = "AlphaTested" -> "alphaTested"
                           [] apiLog[k].a = "AlphaTestedTreeSprites" -> "treeSprites"
                           [] apiLog[k].a = "Transparent" -> "transparent"
    /\ \A i \in DOMAIN mAllRitems : \E d \in DOMAIN lastDraw : lastDraw[d].item = i
    /\ \A d, e \in DOMAIN lastDraw :
         (InLayer(lastDraw[d].item, "Transparent") /\ ~InLayer(lastDraw[e].item, "Transparent"))
           => e < d

C15_Witness ==
  /\ DrawLogged
  /\ \E d \in DOMAIN lastDraw :
       /\ mAllRitems[lastDraw[d].item].Mat = "water"
       /\ lastDraw[d].pso = "transparent"
       /\ d = Len(lastDraw)

\* ------------------------------------------------------------------------
\* Pass constants, wave vertices and pipeline states
\* ------------------------------------------------------------------------
\* number of Updates that have written frame resource fr
UpdatesOf(fr) ==
  Cardinality({n \in DOMAIN frames : frames[n].fr = fr})
    + (IF pc = "Draw" /\ mCurrFrameResource = fr THEN 1 ELSE 0)

\* C16: every Update writes the pass constants it computed into slot 0 of
\* the current frame resource's pass buffer and Draw binds that buffer;
\* until the GPU has finished frame n the slot holds what Update n wrote.
C16_PassConstantsOfFrame ==
  /\ pc = "Draw" =>
       /\ mMainPassCB.TotalTime = totalTime
       /\ CurrFR.PassCB[0].data = mMainPassCB
  /\ \A i \in 1..Len(mFrameResources) : mFrameResources[i].PassCB[0].writes = UpdatesOf(i - 1)
  /\ \A n \in DOMAIN frames :
       /\ frames[n].passCB = frames[n].fr
       /\ frames[n].pass.data = frames[n].computed
       /\ frames[n].pass.writes = Cardinality({m \in 1..n : frames[m].fr = frames[n].fr})
       /\ FramePending(n) => mFrameResources[frames[n].fr + 1].PassCB[0] = frames[n].pass

C16_Witness ==
  /\ pc = "Draw"
  /\ CurrFR.PassCB[0].writes > 1
  /\ \E n \in DOMAIN frames :
       /\ frames[n].fr = mCurrFrameResource
       /\ frames[n].computed # mMainPassCB
  /\ \E n \in DOMAIN frames : FramePending(n)

\* C17: after an Update every vertex of the current frame resource's WavesVB
\* holds the vertex of the current wave solution and the wave item's
\* VertexBufferGPU is that buffer; no draw call binds a null vertex buffer,
\* and the wave buffer bound is not one the GPU has yet to read.
C17_WavesVertexBuffer ==
  /\ pc = "Draw" =>
       /\ VertexCount(mWaves) = WaveGrid * WaveGrid
       /\ \A i \in 0..(VertexCount(mWaves) - 1) :
            /\ CurrFR.WavesVB[i].data = WaveVertex(mWaves, i)
            /\ CurrFR.WavesVB[i].writes = UpdatesOf(mCurrFrameResource)
       /\ mWaves.updates = UpdatesDone
       /\ mGeometries[mAllRitems[mWavesRitem].Geo].VertexBufferGPU =
            WavesVBResource(mCurrFrameResource)
       /\ ~PendingOn(mGeometries[mAllRitems[mWavesRitem].Geo].VertexBufferGPU[3])
  /\ \A d \in DOMAIN lastDraw :
       /\ lastDraw[d].vb # NullResource
       /\ lastDraw[d].item = mWavesRitem => lastDraw[d].vb = WavesVBResource(lastDraw[d].fr)

C17_Witness ==
  /\ pc = "Draw"
  /\ UpdatesOf(mCurrFrameResource) > 1
  /\ mWaves.disturbs > 0
  /\ \E d \in DOMAIN lastDraw :
       lastDraw[d].item = mWavesRitem /\ lastDraw[d].fr # mCurrFrameResource
  /\ \E fr \in 0..(gNumFrameResources - 1) : PendingOn(fr)

\* the D3D12_PRIMITIVE_TOPOLOGY_TYPE a primitive topology belongs to
TopologyTypeOf(topology) ==
  CASE topology = "POINTLIST" -> "POINT"
    [] topology = "TRIANGLELIST" -> "TRIANGLE"
    [] OTHER -> "UNDEFINED"

\* C18: every item drawn with the treeSprites pipeline state has point-list
\* topology and the tree-sprite geometry, every item drawn with another
\* pipeline state has triangle-list topology, and the topology is of the
\* type the pipeline state was built with.
C18_TopologyMatchesPso ==
  \A d \in DOMAIN lastDraw :
    /\ lastDraw[d].pso = "treeSprites" =>
         lastDraw[d].topology = "POINTLIST" /\ lastDraw[d].geo = "treeSpritesGeo"
    /\ lastDraw[d].pso \in {"opaque", "alphaTested", "transparent"} =>
         lastDraw[d].topology = "TRIANGLELIST"
    /\ lastDraw[d].pso \in DOMAIN mPSOs
    /\ mPSOs[lastDraw[d].pso].PrimitiveTopologyType = TopologyTypeOf(lastDraw[d].topology)

C18_Witness ==
  /\ \E d \in DOMAIN lastDraw : lastDraw[d].pso = "treeSprites"
  /\ \E d \in DOMAIN lastDraw : lastDraw[d].pso = "opaque"
  /\ \E d \in DOMAIN lastDraw : lastDraw[d].pso = "alphaTested"
  /\ \E d \in DOMAIN lastDraw : lastDraw[d].pso = "transparent"

\* ------------------------------------------------------------------------
\* Mouse
\* ------------------------------------------------------------------------
\* C19: OnMouseMove pitches by 25 hundredths of a degree per pixel of y and
\* yaws by as much per pixel of x moved since the recorded position when
\* the left button is down and leaves the camera alone otherwise; whatever
\* the buttons, it records the position of the message.
C19_MouseMove ==
  [][ mouseEvents' # mouseEvents =>
        /\ msg'.type \in {"down", "up"} => mCamera' = mCamera
        /\ msg'.type = "move" =>
             /\ mLastMousePos' = [set |-> TRUE, x |-> msg'.x, y |-> msg'.y]
             /\ msg'.btnState \in {0, 2} => mCamera' = mCamera
             /\ (msg'.btnState \in {1, 3} /\ mLastMousePos.set) =>
                  /\ mCamera'.pitch = mCamera.pitch + 25 * (msg'.y - mLastMousePos.y)
                  /\ mCamera'.yaw = mCamera.yaw + 25 * (msg'.x - mLastMousePos.x)
        /\ (msg.type = "move" /\ msg'.type = "move" /\ msg'.btnState \in {1, 3}) =>
             /\ mCamera'.pitch = mCamera.pitch + 25 * (msg'.y - msg.y)
             /\ mCamera'.yaw = mCamera.yaw + 25 * (msg'.x - msg.x) ]_vars

\* a drag whose first message follows a move made with the button up
C19_Witness ==
  /\ mouseEvents >= 2
  /\ msg.type = "move"
  /\ msg.btnState = MK_LBUTTON
  /\ mLastMousePos = [set |-> TRUE, x |-> 1, y |-> 0]
  /\ mCamera = [pitch |-> 0, yaw |-> 25]

====
